---- MODULE Spec2Model ----
(***************************************************************************)
(* A model of create-az-vm.js, the command-line wrapper that provisions    *)
(* one Azure VM through the external `az` CLI.                             *)
(*                                                                         *)
(* JavaScript strings are sequences of one-character strings, so that      *)
(* split, slice, includes, toLowerCase and replace are computed character  *)
(* by character.  Four specifications share the variables:                 *)
(*   Spec      one run of the program (help flag, main, the external calls)*)
(*   SpecArgs  parseArgs applied to bounded command lines and clocks       *)
(*   SpecPwd   generateSecurePassword applied to bounded random draws      *)
(*   SpecEsc   the password escaping of createVM applied to bounded input  *)
(***************************************************************************)
EXTENDS Integers, Sequences, FiniteSets, TLC

VARIABLES
  pc,          \* position of the program (or of the function under check)
  argv,        \* process.argv.slice(2): the command-line tokens
  clock,       \* the values the two Date.now() reads of parseArgs return
  parsed,      \* outcome of parseArgs: not run, a configuration, or a throw
  calls,       \* the external commands issued so far, in order, with outcome
  exitCode,    \* the process exit code, -1 while the process runs
  usageShown,  \* whether showHelp printed the usage text
  cliOk,       \* result of checkAzureCli
  loginOk,     \* result of checkAzureLogin
  rgOk,        \* result of createResourceGroup
  vmData,      \* result of createVM
  tape,        \* the values crypto.randomInt returns during one generation
  drawn,       \* the 16 characters chosen before the shuffle
  password,    \* the password generateSecurePassword returns
  plain,       \* args.password handed to createVM
  command      \* the `az vm create` command createVM builds

vars == <<pc, argv, clock, parsed, calls, exitCode, usageShown, cliOk, loginOk,
          rgOk, vmData, tape, drawn, password, plain, command>>

----------------------------------------------------------------------------
(* Bounds of the model.                                                    *)

\* longest command line explored by SpecArgs
MaxArgs == 2
\* longest command line explored by Spec
MaxRunArgs == 2
\* random draws of one password generation that may differ from 0
MaxDeviations == 2
\* longest password explored by SpecEsc
MaxPwLen == 4

----------------------------------------------------------------------------
(* JavaScript values and string primitives.                                *)

\* null, undefined and the empty string: the code only tests them for
\* truthiness (`&& value`, `!args.name`, `!args.password`)
Falsy == <<>>

\* a value that is not a string: a function or object inherited from
\* Object.prototype
InheritedObject == <<"[inherited]">>

Truthy(v) == v # Falsy

IsString(v) == v # InheritedObject

StartsWith(s, prefix) ==
  /\ Len(s) >= Len(prefix)
  /\ SubSeq(s, 1, Len(prefix)) = prefix

\* s.substring(n)
Substring(s, n) == SubSeq(s, n + 1, Len(s))

\* s.slice(-n)
SliceLast(s, n) == SubSeq(s, (IF Len(s) > n THEN Len(s) - n ELSE 0) + 1, Len(s))

\* s.includes(sub)
Includes(s, sub) ==
  \E i \in 1..(Len(s) - Len(sub) + 1) : SubSeq(s, i, i + Len(sub) - 1) = sub

RECURSIVE Split(_, _)
\* s.split(sep) for a one-character separator
Split(s, sep) ==
  IF \E i \in 1..Len(s) : s[i] = sep
  THEN LET i == CHOOSE k \in 1..Len(s) :
                   s[k] = sep /\ \A j \in 1..(k - 1) : s[j] # sep
       IN <<SubSeq(s, 1, i - 1)>> \o Split(SubSeq(s, i + 1, Len(s)), sep)
  ELSE <<s>>

lowercase == <<"a","b","c","d","e","f","g","h","i","j","k","l","m","n","o","p","q","r","s","t","u","v","w","x","y","z">>
uppercase == <<"A","B","C","D","E","F","G","H","I","J","K","L","M","N","O","P","Q","R","S","T","U","V","W","X","Y","Z">>
digits == <<"0","1","2","3","4","5","6","7","8","9">>
special == <<"!","@","#","$","%","^","&","*","(",")","_","+","-","=","[","]","{","}","|",";",":",",",".","<",">","?">>

LowerOf(c) ==
  IF \E i \in 1..Len(uppercase) : uppercase[i] = c
  THEN lowercase[CHOOSE i \in 1..Len(uppercase) : uppercase[i] = c]
  ELSE c

\* s.toLowerCase()
ToLowerCase(s) == [i \in 1..Len(s) |-> LowerOf(s[i])]

\* Date.now() is an integer of 13 decimal digits, beyond TLC's 32-bit
\* integers: a clock value is held as its decimal digits, most significant
\* first, and Date.now().toString() turns each digit into its character
NumberToString(n) == [i \in 1..Len(n) |-> digits[n[i] + 1]]

----------------------------------------------------------------------------
(* IMAGE_PRESETS, detectOSType, parseArgs.                                 *)

IMAGE_PRESETS ==
  (<<"w","i","n","d","o","w","s","-","1","1">> :> <<"M","i","c","r","o","s","o","f","t","W","i","n","d","o","w","s","D","e","s","k","t","o","p",":","W","i","n","d","o","w","s","-","1","1",":","w","i","n","1","1","-","2","3","h","2","-","p","r","o",":","l","a","t","e","s","t">>) @@
  (<<"w","i","n","d","o","w","s","-","1","0">> :> <<"M","i","c","r","o","s","o","f","t","W","i","n","d","o","w","s","D","e","s","k","t","o","p",":","W","i","n","d","o","w","s","-","1","0",":","w","i","n","1","0","-","2","2","h","2","-","p","r","o",":","l","a","t","e","s","t">>) @@
  (<<"w","i","n","d","o","w","s","-","s","e","r","v","e","r","-","2","0","2","2">> :> <<"M","i","c","r","o","s","o","f","t","W","i","n","d","o","w","s","S","e","r","v","e","r",":","W","i","n","d","o","w","s","S","e","r","v","e","r",":","2","0","2","2","-","d","a","t","a","c","e","n","t","e","r",":","l","a","t","e","s","t">>) @@
  (<<"w","i","n","d","o","w","s","-","s","e","r","v","e","r","-","2","0","1","9">> :> <<"M","i","c","r","o","s","o","f","t","W","i","n","d","o","w","s","S","e","r","v","e","r",":","W","i","n","d","o","w","s","S","e","r","v","e","r",":","2","0","1","9","-","d","a","t","a","c","e","n","t","e","r",":","l","a","t","e","s","t">>) @@
  (<<"u","b","u","n","t","u">> :> <<"C","a","n","o","n","i","c","a","l",":","0","0","0","1","-","c","o","m","-","u","b","u","n","t","u","-","s","e","r","v","e","r","-","j","a","m","m","y",":","2","2","_","0","4","-","l","t","s",":","l","a","t","e","s","t">>) @@
  (<<"u","b","u","n","t","u","-","2","0">> :> <<"C","a","n","o","n","i","c","a","l",":","0","0","0","1","-","c","o","m","-","u","b","u","n","t","u","-","s","e","r","v","e","r","-","f","o","c","a","l",":","2","0","_","0","4","-","l","t","s",":","l","a","t","e","s","t">>) @@
  (<<"d","e","b","i","a","n">> :> <<"D","e","b","i","a","n",":","d","e","b","i","a","n","-","1","1",":","1","1",":","l","a","t","e","s","t">>) @@
  (<<"c","e","n","t","o","s">> :> <<"O","p","e","n","L","o","g","i","c",":","C","e","n","t","O","S",":","7","_","9",":","l","a","t","e","s","t">>) @@
  (<<"r","h","e","l">> :> <<"R","e","d","H","a","t",":","R","H","E","L",":","8","-","l","v","m",":","l","a","t","e","s","t">>) @@
  (<<"s","u","s","e">> :> <<"S","U","S","E",":","s","l","e","s","-","1","5","-","s","p","3",":","g","e","n","2",":","l","a","t","e","s","t">>)

\* property names every plain object inherits from Object.prototype
ObjectPrototypeKeys ==
  { <<"c","o","n","s","t","r","u","c","t","o","r">>, <<"t","o","S","t","r","i","n","g">>, <<"v","a","l","u","e","O","f">>, <<"h","a","s","O","w","n","P","r","o","p","e","r","t","y">>,
    <<"i","s","P","r","o","t","o","t","y","p","e","O","f">>, <<"p","r","o","p","e","r","t","y","I","s","E","n","u","m","e","r","a","b","l","e">>, <<"t","o","L","o","c","a","l","e","S","t","r","i","n","g">>,
    <<"_","_","p","r","o","t","o","_","_">>, <<"_","_","d","e","f","i","n","e","G","e","t","t","e","r","_","_">>, <<"_","_","d","e","f","i","n","e","S","e","t","t","e","r","_","_">>,
    <<"_","_","l","o","o","k","u","p","G","e","t","t","e","r","_","_">>, <<"_","_","l","o","o","k","u","p","S","e","t","t","e","r","_","_">> }

\* IMAGE_PRESETS[key]: an own entry, something inherited, or undefined
PresetLookup(key) ==
  IF key \in DOMAIN IMAGE_PRESETS THEN IMAGE_PRESETS[key]
  ELSE IF key \in ObjectPrototypeKeys THEN InheritedObject
  ELSE Falsy

OS_windows == <<"w","i","n","d","o","w","s">>

OS_linux == <<"l","i","n","u","x">>

detectOSTypeCaseSensitive(image) ==
  IF Includes(image, <<"w","i","n","d","o","w","s">>) \/ Includes(image, <<"w","i","n">>)
  THEN OS_windows ELSE OS_linux

detectOSType(image) ==
  LET imageLower == ToLowerCase(image)
  IN IF Includes(imageLower, <<"w","i","n","d","o","w","s">>) \/ Includes(imageLower, <<"w","i","n">>)
     THEN OS_windows ELSE OS_linux

K_location == <<"l","o","c","a","t","i","o","n">>
K_name == <<"n","a","m","e">>
K_size == <<"s","i","z","e">>
K_image == <<"i","m","a","g","e">>
K_resourceGroup == <<"r","e","s","o","u","r","c","e","G","r","o","u","p">>
K_username == <<"u","s","e","r","n","a","m","e">>
K_password == <<"p","a","s","s","w","o","r","d">>
K_os == <<"o","s">>

ArgKeys ==
  {K_location, K_name, K_size, K_image, K_resourceGroup, K_username,
   K_password, K_os}

\* the args object parseArgs starts from
DefaultArgs(now) ==
  [ location |-> <<"n","o","r","t","h","e","u","r","o","p","e">>,
    name |-> Falsy,
    size |-> <<"S","t","a","n","d","a","r","d","_","D","2","s","_","v","3">>,
    image |-> <<"w","i","n","d","o","w","s","-","1","1">>,
    resourceGroup |-> <<"v","m","-","r","g","-">> \o NumberToString(now),
    username |-> <<"a","z","u","r","e","u","s","e","r">>,
    password |-> Falsy,
    os |-> Falsy ]

\* key in args: an own property or one inherited from Object.prototype
KeyInArgs(key) == key \in ArgKeys \/ key \in ObjectPrototypeKeys

\* args[key] = value; an inherited name becomes an own property that no
\* later step reads, and `__proto__ = <string>` is ignored
SetArg(a, key, value) ==
  CASE key = K_location -> [a EXCEPT !.location = value]
    [] key = K_name -> [a EXCEPT !.name = value]
    [] key = K_size -> [a EXCEPT !.size = value]
    [] key = K_image -> [a EXCEPT !.image = value]
    [] key = K_resourceGroup -> [a EXCEPT !.resourceGroup = value]
    [] key = K_username -> [a EXCEPT !.username = value]
    [] key = K_password -> [a EXCEPT !.password = value]
    [] key = K_os -> [a EXCEPT !.os = value]
    [] OTHER -> a

\* const [key, value] = arg.substring(2).split("=")
ArgKey(arg) == Split(Substring(arg, 2), "=")[1]

ArgValue(arg) ==
  LET parts == Split(Substring(arg, 2), "=")
  IN IF Len(parts) >= 2 THEN parts[2] ELSE Falsy

\* the body of the forEach callback
ApplyArg(a, arg) ==
  IF StartsWith(arg, <<"-","-">>)
  THEN IF KeyInArgs(ArgKey(arg)) /\ Truthy(ArgValue(arg))
       THEN SetArg(a, ArgKey(arg), ArgValue(arg))
       ELSE a
  ELSE a

RECURSIVE ApplyArgs(_, _)
\* process.argv.slice(2).forEach(...)
ApplyArgs(a, tokens) ==
  IF tokens = <<>> THEN a
  ELSE ApplyArgs(ApplyArg(a, Head(tokens)), Tail(tokens))

\* if (IMAGE_PRESETS[args.image]) args.image = IMAGE_PRESETS[args.image]
ResolvePreset(a) ==
  IF Truthy(PresetLookup(a.image))
  THEN [a EXCEPT !.image = PresetLookup(a.image)]
  ELSE a

WindowsNameNoSlice(now) == <<"w","i","n","-">> \o NumberToString(now)

WindowsName(now) == <<"w","i","n","-">> \o SliceLast(NumberToString(now), 8)

LinuxName(now) == <<"l","i","n","u","x","-","v","m","-">> \o NumberToString(now)

\* if (!args.name) { ... }
DefaultName(a, now) ==
  IF Truthy(a.name) THEN a
  ELSE IF a.os = OS_windows
       THEN [a EXCEPT !.name = WindowsName(now)]
       ELSE [a EXCEPT !.name = LinuxName(now)]

\* if (!args.password) args.password = generateSecurePassword()
DefaultPassword(a, generated) ==
  IF Truthy(a.password) THEN a ELSE [a EXCEPT !.password = generated]

\* parseArgs: now1 and now2 are the two Date.now() reads, generated the
\* value generateSecurePassword() returns.  image.toLowerCase() throws a
\* TypeError when the preset lookup put a non-string into args.image.
ParseArgs(tokens, now1, now2, generated) ==
  LET resolved == ResolvePreset(ApplyArgs(DefaultArgs(now1), tokens))
  IN IF ~IsString(resolved.image)
     THEN [status |-> "threw"]
     ELSE [status |-> "ok",
           args |-> DefaultPassword(
                      DefaultName(
                        [resolved EXCEPT !.os = detectOSType(resolved.image)],
                        now2),
                      generated)]

----------------------------------------------------------------------------
(* generateSecurePassword.                                                 *)

length == 16

allChars == lowercase \o uppercase \o digits \o special

\* comparator calls a binary insertion sort of 16 elements can make:
\* inserting element i (1..15) takes at most floor(log2 i) + 1 of them
CmpTapeLen == 1 + 2 * 2 + 4 * 3 + 8 * 4

\* the range n of the k-th character draw crypto.randomInt(n)
PickRange(k) ==
  CASE k = 1 -> Len(lowercase)
    [] k = 2 -> Len(uppercase)
    [] k = 3 -> Len(digits)
    [] k = 4 -> Len(special)
    [] OTHER -> Len(allChars)

\* a tape holds what crypto.randomInt returns: picks[k] at the k-th
\* character draw, cmps[n] at the n-th call of the sort comparator
ZeroTape ==
  [ picks |-> [k \in 1..length |-> 0],
    cmps |-> [n \in 1..CmpTapeLen |-> 0] ]

\* no generation under way
NoTape == [picks |-> <<>>, cmps |-> <<>>]

\* the draws of a tape that differ from 0
Deviations(t) ==
  Cardinality({k \in 1..length : t.picks[k] # 0})
    + Cardinality({n \in 1..CmpTapeLen : t.cmps[n] # 0})

SeedsNoDigit(t) ==
  << lowercase[t.picks[1] + 1],
     uppercase[t.picks[2] + 1],
     lowercase[t.picks[3] + 1],
     special[t.picks[4] + 1] >>

\* one character of each required type
Seeds(t) ==
  << lowercase[t.picks[1] + 1],
     uppercase[t.picks[2] + 1],
     digits[t.picks[3] + 1],
     special[t.picks[4] + 1] >>

RECURSIVE Fill(_, _)
\* for (let i = password.length; i < length; i++) password.push(...)
Fill(pw, t) ==
  IF Len(pw) < length
  THEN Fill(Append(pw, allChars[t.picks[Len(pw) + 1] + 1]), t)
  ELSE pw

\* () => crypto.randomInt(3) - 1, at the n-th comparator call
Compare(t, n) == t.cmps[n] - 1

RECURSIVE InsertionPoint(_, _, _, _)
\* Array.prototype.sort on a short array is a binary insertion sort: the
\* binary search for the place of the pivot in the sorted prefix
\* [left, right), after n comparator calls (0-based positions)
InsertionPoint(t, left, right, n) ==
  IF left < right
  THEN LET mid == left + ((right - left) \div 2)
       IN IF Compare(t, n + 1) < 0
          THEN InsertionPoint(t, left, mid, n + 1)
          ELSE InsertionPoint(t, mid + 1, right, n + 1)
  ELSE [pos |-> left, n |-> n]

\* element i moved to position p <= i, the elements between shifted right
MoveTo(arr, i, p) ==
  SubSeq(arr, 1, p) \o <<arr[i + 1]>> \o SubSeq(arr, p + 1, i)
    \o SubSeq(arr, i + 2, Len(arr))

RECURSIVE SortFrom(_, _, _, _)
SortFrom(arr, i, t, n) ==
  IF i >= Len(arr) THEN arr
  ELSE LET r == InsertionPoint(t, 0, i, n)
       IN SortFrom(MoveTo(arr, i, r.pos), i + 1, t, r.n)

\* password.sort(() => crypto.randomInt(3) - 1)
Shuffle(arr, t) == SortFrom(arr, 1, t, 0)

\* the array before the shuffle
ChosenChars(t) == Fill(Seeds(t), t)

generateSecurePassword(t) == Shuffle(ChosenChars(t), t)

----------------------------------------------------------------------------
(* exec, the prerequisite checks, createResourceGroup, createVM.           *)

\* what the command wrote to standard output: nothing, white space only,
\* text that is no JSON, a JSON text of a falsy value (null), a JSON object,
\* a JSON object with a user field
StdoutKinds == {"empty", "blank", "text", "json_null", "json_object", "json_account"}

\* how an external command ends: exit status (1 for any non-zero status)
\* and standard output
Outcomes == [status : {0, 1}, stdout : StdoutKinds]

\* .trim()
Trim(out) == IF out = "blank" THEN "empty" ELSE out

\* exec: the trimmed output, also of a failed command that wrote to
\* standard output; otherwise the error is rethrown
Exec(o) ==
  IF o.status = 0 THEN [threw |-> FALSE, out |-> Trim(o.stdout)]
  ELSE IF o.stdout # "empty" THEN [threw |-> FALSE, out |-> Trim(o.stdout)]
  ELSE [threw |-> TRUE, out |-> "empty"]

\* JSON.parse
JsonParse(out) ==
  CASE out = "json_null" -> [threw |-> FALSE, value |-> "null"]
    [] out = "json_object" -> [threw |-> FALSE, value |-> "object"]
    [] out = "json_account" -> [threw |-> FALSE, value |-> "account"]
    [] OTHER -> [threw |-> TRUE, value |-> "null"]

checkAzureCli(o) == ~Exec(o).threw

\* accountData.user.name throws unless the parsed value has a user field
checkAzureLogin(o) ==
  /\ ~Exec(o).threw
  /\ ~JsonParse(Exec(o).out).threw
  /\ JsonParse(Exec(o).out).value = "account"

createResourceGroup(o) == ~Exec(o).threw

\* the parsed output, or null when exec or JSON.parse throws
createVM(o) ==
  IF Exec(o).threw \/ JsonParse(Exec(o).out).threw
  THEN "null"
  ELSE JsonParse(Exec(o).out).value

RECURSIVE ReplaceAll(_, _, _)
\* s.replace(/c/g, rep) for a one-character pattern c
ReplaceAll(s, c, rep) ==
  IF s = <<>> THEN <<>>
  ELSE (IF Head(s) = c THEN rep ELSE <<Head(s)>>) \o ReplaceAll(Tail(s), c, rep)

RECURSIVE ReplaceFirst(_, _, _)
\* s.replace(/c/, rep): only the first occurrence
ReplaceFirst(s, c, rep) ==
  IF s = <<>> THEN <<>>
  ELSE IF Head(s) = c THEN rep \o Tail(s)
  ELSE <<Head(s)>> \o ReplaceFirst(Tail(s), c, rep)

EscapePasswordFirstOnly(p) ==
  ReplaceFirst(ReplaceFirst(p, "\"", <<"\\", "\"">>), "$", <<"\\", "$">>)

\* args.password.replace(/"/g, '\\"').replace(/\$/g, "\\$")
EscapePassword(p) ==
  ReplaceAll(ReplaceAll(p, "\"", <<"\\", "\"">>), "$", <<"\\", "$">>)

\* the arguments of the `az vm create` command line; adminPassword is the
\* text of the double-quoted argument, quotes included
VMCommand(a) ==
  [ resourceGroup |-> a.resourceGroup,
    name |-> a.name,
    image |-> a.image,
    adminUsername |-> a.username,
    adminPassword |-> <<"\"">> \o EscapePassword(a.password) \o <<"\"">>,
    size |-> a.size,
    nsgRule |-> IF a.os = OS_windows THEN "RDP" ELSE "SSH" ]

NoCommand == [nsgRule |-> "none"]

\* an issued external command with its outcome
Call(cmd, rg, o) == [cmd |-> cmd, rg |-> rg, status |-> o.status, stdout |-> o.stdout]

CleanupTargetName(a) == a.name

\* the group `az group delete --name ... --yes --no-wait` names
CleanupTarget(a) == a.resourceGroup

----------------------------------------------------------------------------
(* Inputs.                                                                 *)

SeqsUpTo(S, n) == UNION {[1..k -> S] : k \in 0..n}

HelpToken == <<"-","-","h","e","l","p">>

ImageFlag == <<"-","-","i","m","a","g","e","=">>

\* values given to --image=: the ten preset keys, a name inherited from
\* Object.prototype, a value holding `=`, custom identifiers, nothing
ImageValues ==
  DOMAIN IMAGE_PRESETS
    \cup {<<"c","o","n","s","t","r","u","c","t","o","r">>, <<"a","=","b">>, <<"W","I","N">>, <<"d","e","b">>, <<>>}

Tokens ==
  {ImageFlag \o v : v \in ImageValues}
    \cup {<<"-","-","n","a","m","e","=","v","m","1">>, <<"-","-","n","a","m","e","=","a","=","b">>, <<"-","-","o","s","=","l","i","n","u","x">>, <<"-","-","o","s","=","w","i","n","d","o","w","s">>, <<"-","-","p","a","s","s","w","o","r","d","=","p","w">>,
          <<"-","-","r","e","s","o","u","r","c","e","G","r","o","u","p","=","r","g","1">>, <<"-","-","b","o","g","u","s","=","1">>, <<"-","-","t","o","S","t","r","i","n","g","=","x">>,
          <<"-","-","i","m","a","g","e">>, <<"i","m","a","g","e","=","u","b","u","n","t","u">>}

RunTokens ==
  {HelpToken, <<"-","-","r","e","s","o","u","r","c","e","G","r","o","u","p","=","r","g","1">>, <<"-","-","i","m","a","g","e","=","u","b","u","n","t","u">>, <<"-","-","i","m","a","g","e","=","c","o","n","s","t","r","u","c","t","o","r">>}

\* Date.now(): a small value, a 9-digit value and a present-day one
ClockSamples ==
  { <<7>>, <<9,8,7,6,5,4,3,2,1>>, <<1,7,9,3,5,6,8,0,2,4,6,8,9>> }

\* the backtick character, which a TLA+ string cannot hold
Backtick == "BACKTICK"

EscapeAlphabet == {"a", "\"", "$", "\\", Backtick}

ExamplePassword == <<"a","\"","b","$","c">>

\* the password parseArgs gets from generateSecurePassword()
GeneratedSample == generateSecurePassword(ZeroTape)

----------------------------------------------------------------------------
(* Spec: one run of the program.                                           *)

IdleRun ==
  /\ clock = <<>>
  /\ parsed = [status |-> "none"]
  /\ calls = <<>>
  /\ exitCode = -1
  /\ usageShown = FALSE
  /\ cliOk = "pending"
  /\ loginOk = "pending"
  /\ rgOk = "pending"
  /\ vmData = "unset"

IdlePwd ==
  /\ tape = NoTape
  /\ drawn = <<>>
  /\ password = <<>>

IdleEsc ==
  /\ plain = <<>>
  /\ command = NoCommand

Init ==
  /\ pc = "start"
  /\ argv \in SeqsUpTo(RunTokens, MaxRunArgs)
  /\ IdleRun
  /\ IdlePwd
  /\ IdleEsc

\* process.exit(code)
Exit(code) ==
  /\ pc' = "exited"
  /\ exitCode' = code

HelpRequestedFirstOnly(tokens) == tokens # <<>> /\ tokens[1] = HelpToken

\* process.argv.includes("--help")
HelpRequested(tokens) == \E i \in 1..Len(tokens) : tokens[i] = HelpToken

\* the help flag handling that runs before main
HelpFlag ==
  /\ pc = "start"
  /\ IF HelpRequested(argv)
     THEN /\ usageShown' = TRUE
          /\ Exit(0)
     ELSE /\ pc' = "checkAzureCli"
          /\ UNCHANGED <<usageShown, exitCode>>
  /\ UNCHANGED <<argv, clock, parsed, calls, cliOk, loginOk, rgOk, vmData,
                 tape, drawn, password, plain, command>>

\* main: if (!checkAzureCli()) process.exit(1)
CheckAzureCli ==
  /\ pc = "checkAzureCli"
  /\ \E o \in Outcomes :
       /\ calls' = Append(calls, Call("version", Falsy, o))
       /\ IF checkAzureCli(o)
          THEN /\ cliOk' = "true"
               /\ pc' = "checkAzureLogin"
               /\ UNCHANGED exitCode
          ELSE /\ cliOk' = "false"
               /\ Exit(1)
  /\ UNCHANGED <<argv, clock, parsed, usageShown, loginOk, rgOk, vmData,
                 tape, drawn, password, plain, command>>

CheckAzureLoginNoExit ==
  /\ pc = "checkAzureLogin"
  /\ \E o \in Outcomes :
       /\ calls' = Append(calls, Call("account_show", Falsy, o))
       /\ loginOk' = IF checkAzureLogin(o) THEN "true" ELSE "false"
       /\ pc' = "parseArgs"
       /\ UNCHANGED exitCode
  /\ UNCHANGED <<argv, clock, parsed, usageShown, cliOk, rgOk, vmData,
                 tape, drawn, password, plain, command>>

\* main: if (!checkAzureLogin()) process.exit(1)
CheckAzureLogin ==
  /\ pc = "checkAzureLogin"
  /\ \E o \in Outcomes :
       /\ calls' = Append(calls, Call("account_show", Falsy, o))
       /\ IF checkAzureLogin(o)
          THEN /\ loginOk' = "true"
               /\ pc' = "parseArgs"
               /\ UNCHANGED exitCode
          ELSE /\ loginOk' = "false"
               /\ Exit(1)
  /\ UNCHANGED <<argv, clock, parsed, usageShown, cliOk, rgOk, vmData,
                 tape, drawn, password, plain, command>>

\* main: const args = parseArgs(); a throw reaches main().catch, which
\* exits 1
ParseArguments ==
  /\ pc = "parseArgs"
  /\ \E now \in ClockSamples :
       /\ clock' = <<now, now>>
       /\ parsed' = ParseArgs(argv, now, now, GeneratedSample)
  /\ IF parsed'.status = "threw"
     THEN Exit(1)
     ELSE /\ pc' = "createResourceGroup"
          /\ UNCHANGED exitCode
  /\ UNCHANGED <<argv, calls, usageShown, cliOk, loginOk, rgOk, vmData,
                 tape, drawn, password, plain, command>>

\* main: if (!createResourceGroup(args)) process.exit(1)
CreateResourceGroup ==
  /\ pc = "createResourceGroup"
  /\ \E o \in Outcomes :
       /\ calls' = Append(calls, Call("group_create", parsed.args.resourceGroup, o))
       /\ IF createResourceGroup(o)
          THEN /\ rgOk' = "true"
               /\ pc' = "createVM"
               /\ UNCHANGED exitCode
          ELSE /\ rgOk' = "false"
               /\ Exit(1)
  /\ UNCHANGED <<argv, clock, parsed, usageShown, cliOk, loginOk, vmData,
                 tape, drawn, password, plain, command>>

\* main: const vmData = createVM(args)
CreateVM ==
  /\ pc = "createVM"
  /\ plain' = parsed.args.password
  /\ command' = VMCommand(parsed.args)
  /\ \E o \in Outcomes :
       /\ calls' = Append(calls, Call("vm_create", parsed.args.resourceGroup, o))
       /\ vmData' = createVM(o)
  /\ pc' = IF vmData' = "null" THEN "cleanup" ELSE "display"
  /\ UNCHANGED <<argv, clock, parsed, exitCode, usageShown, cliOk, loginOk,
                 rgOk, tape, drawn, password>>

\* main: if (!vmData) { exec(`az group delete ...`); process.exit(1) }; a
\* throw of exec reaches main().catch, which exits 1 as well
Cleanup ==
  /\ pc = "cleanup"
  /\ \E o \in Outcomes :
       /\ calls' = Append(calls, Call("group_delete", CleanupTarget(parsed.args), o))
       /\ IF Exec(o).threw THEN Exit(1) ELSE Exit(1)
  /\ UNCHANGED <<argv, clock, parsed, usageShown, cliOk, loginOk, rgOk,
                 vmData, tape, drawn, password, plain, command>>

\* main: displayConnectionDetails(args, vmData), then the process ends
Display ==
  /\ pc = "display"
  /\ Exit(0)
  /\ UNCHANGED <<argv, clock, parsed, calls, usageShown, cliOk, loginOk,
                 rgOk, vmData, tape, drawn, password, plain, command>>

Next ==
  \/ HelpFlag
  \/ CheckAzureCli
  \/ CheckAzureLogin
  \/ ParseArguments
  \/ CreateResourceGroup
  \/ CreateVM
  \/ Cleanup
  \/ Display

Spec == Init /\ [][Next]_vars

----------------------------------------------------------------------------
(* SpecArgs: parseArgs on bounded command lines.                           *)

InitArgs ==
  /\ pc = "parseArgs"
  /\ argv \in SeqsUpTo(Tokens, MaxArgs)
  /\ IdleRun
  /\ IdlePwd
  /\ IdleEsc

ResolveArgs ==
  /\ pc = "parseArgs"
  /\ \E now1 \in ClockSamples, now2 \in ClockSamples :
       /\ clock' = <<now1, now2>>
       /\ parsed' = ParseArgs(argv, now1, now2, GeneratedSample)
  /\ pc' = "parsed"
  /\ UNCHANGED <<argv, calls, exitCode, usageShown, cliOk, loginOk, rgOk,
                 vmData, tape, drawn, password, plain, command>>

NextArgs == ResolveArgs

SpecArgs == InitArgs /\ [][NextArgs]_vars

----------------------------------------------------------------------------
(* SpecPwd: generateSecurePassword on bounded random draws.                *)

InitPwd ==
  /\ pc = "draw"
  /\ argv = <<>>
  /\ tape = ZeroTape
  /\ drawn = <<>>
  /\ password = <<>>
  /\ IdleRun
  /\ IdleEsc

\* one more character draw returns a value other than 0: the largest
\* index of its range
DrawPick ==
  /\ pc = "draw"
  /\ Deviations(tape) < MaxDeviations
  /\ \E k \in 1..length :
       /\ tape.picks[k] = 0
       /\ tape' = [tape EXCEPT !.picks[k] = PickRange(k) - 1]
  /\ UNCHANGED <<pc, argv, clock, parsed, calls, exitCode, usageShown, cliOk,
                 loginOk, rgOk, vmData, drawn, password, plain, command>>

\* one more comparator draw returns a value other than 0
DrawCompare ==
  /\ pc = "draw"
  /\ Deviations(tape) < MaxDeviations
  /\ \E n \in 1..CmpTapeLen, v \in 1..2 :
       /\ tape.cmps[n] = 0
       /\ tape' = [tape EXCEPT !.cmps[n] = v]
  /\ UNCHANGED <<pc, argv, clock, parsed, calls, exitCode, usageShown, cliOk,
                 loginOk, rgOk, vmData, drawn, password, plain, command>>

\* generateSecurePassword() with the draws of the tape
GeneratePassword ==
  /\ pc = "draw"
  /\ drawn' = ChosenChars(tape)
  /\ password' = generateSecurePassword(tape)
  /\ pc' = "generated"
  /\ UNCHANGED <<argv, clock, parsed, calls, exitCode, usageShown, cliOk,
                 loginOk, rgOk, vmData, tape, plain, command>>

NextPwd ==
  \/ DrawPick
  \/ DrawCompare
  \/ GeneratePassword

SpecPwd == InitPwd /\ [][NextPwd]_vars

----------------------------------------------------------------------------
(* SpecEsc: the command createVM builds, on bounded passwords.             *)

\* the configuration of a run without flags, with the password replaced
EscArgs(p) ==
  [ParseArgs(<<>>, <<7>>, <<7>>, GeneratedSample).args EXCEPT !.password = p]

InitEsc ==
  /\ pc = "createVM"
  /\ argv = <<>>
  /\ plain \in (SeqsUpTo(EscapeAlphabet, MaxPwLen) \ {<<>>}) \cup {ExamplePassword}
  /\ command = NoCommand
  /\ IdleRun
  /\ IdlePwd

\* createVM up to the command it hands to exec
BuildCommand ==
  /\ pc = "createVM"
  /\ command' = VMCommand(EscArgs(plain))
  /\ pc' = "built"
  /\ UNCHANGED <<argv, clock, parsed, calls, exitCode, usageShown, cliOk,
                 loginOk, rgOk, vmData, tape, drawn, password, plain>>

NextEsc == BuildCommand

SpecEsc == InitEsc /\ [][NextEsc]_vars

----------------------------------------------------------------------------
(* Properties.                                                             *)

\* the positions in the call log of the commands of one kind
CallsOf(cmd) == {i \in 1..Len(calls) : calls[i].cmd = cmd}

\* how often character c occurs in s
Count(s, c) == Cardinality({i \in 1..Len(s) : s[i] = c})

InClass(c, class) == \E i \in 1..Len(class) : class[i] = c

\* C1: in a run whose VM creation failed (createVM returned no VM data,
\* which only happens after both checks passed and the resource group was
\* created), the run goes on to the cleanup alone; once it has ended,
\* exactly one `az group delete` was issued, it is the last external call,
\* it names the resource group `az group create` named, and the exit code
\* is 1, whatever the outcome of the delete command.
C1_CleanupAfterVMFailure ==
  vmData = "null" =>
    /\ pc \in {"cleanup", "exited"}
    /\ cliOk = "true" /\ loginOk = "true" /\ rgOk = "true"
    /\ pc = "cleanup" => CallsOf("group_delete") = {}
    /\ pc = "exited" =>
         /\ Cardinality(CallsOf("group_delete")) = 1
         /\ calls[Len(calls)].cmd = "group_delete"
         /\ Cardinality(CallsOf("group_create")) = 1
         /\ \A i \in CallsOf("group_create") : calls[Len(calls)].rg = calls[i].rg
         /\ exitCode = 1

\* C1 witness: a run that ended after a failed VM creation whose delete
\* command failed too (non-zero status, nothing on standard output)
C1_Witness ==
  /\ pc = "exited"
  /\ vmData = "null"
  /\ calls[Len(calls)].cmd = "group_delete"
  /\ calls[Len(calls)].status = 1
  /\ calls[Len(calls)].stdout = "empty"
  /\ exitCode = 1

\* C2: when the `az group create` command exits non-zero, whatever it wrote
\* to standard output, the run ends with exit code 1 and issues neither a
\* VM creation nor a resource-group deletion.
C2_FailedGroupCommandEndsRun ==
  \A i \in CallsOf("group_create") :
    calls[i].status # 0 =>
      /\ pc = "exited"
      /\ exitCode = 1
      /\ CallsOf("vm_create") = {}
      /\ CallsOf("group_delete") = {}

C4_HelpShortCircuits ==
  (\E i \in 1..Len(argv) : argv[i] = HelpToken) =>
    /\ calls = <<>>
    /\ pc \in {"start", "exited"}
    /\ pc = "exited" => (exitCode = 0 /\ usageShown)
    /\ pc = "start" => ENABLED HelpFlag

\* C4 witness: --help as the second token, after another token
C4_Witness ==
  /\ pc = "exited"
  /\ Len(argv) = 2
  /\ argv[1] # HelpToken
  /\ argv[2] = HelpToken
  /\ usageShown
  /\ exitCode = 0

\* C5: parseArgs never throws and returns a configuration all of whose
\* fields are set, for every command line.
C5_ParseArgsTotal ==
  pc = "parsed" =>
    /\ parsed.status = "ok"
    /\ \A f \in {"location", "name", "size", "image", "resourceGroup",
                 "username", "password", "os"} : Truthy(parsed.args[f])

\* C6: --image=<key> for a preset key resolves to the mapped identifier,
\* and --image=<s> for any other non-empty s resolves to s itself.
C6_ImageResolution ==
  \A s \in ImageValues \ {<<>>} :
    (pc = "parsed" /\ argv = <<ImageFlag \o s>>) =>
      /\ parsed.status = "ok"
      /\ parsed.args.image =
           IF s \in DOMAIN IMAGE_PRESETS THEN IMAGE_PRESETS[s] ELSE s

\* s contains "win" in any mix of upper and lower case
ContainsWinAnyCase(s) ==
  \E i \in 1..(Len(s) - 2) :
    /\ s[i] \in {"w", "W"}
    /\ s[i + 1] \in {"i", "I"}
    /\ s[i + 2] \in {"n", "N"}

IsOsFlag(token) == StartsWith(token, <<"-","-","o","s">>)

\* C7: the resolved os is windows exactly when the resolved image contains
\* "win" case-insensitively, and linux otherwise; tokens --os=<value>
\* change nothing: the command line without them resolves to the same
\* configuration.
C7_OsFromImageAlone ==
  (pc = "parsed" /\ parsed.status = "ok") =>
    /\ parsed.args.os \in {OS_windows, OS_linux}
    /\ parsed.args.os = OS_windows <=> ContainsWinAnyCase(parsed.args.image)
    /\ parsed = ParseArgs(SelectSeq(argv, LAMBDA t : ~IsOsFlag(t)),
                          clock[1], clock[2], GeneratedSample)

\* C7 witness: an upper-case custom image together with --os=linux
\* resolves to windows
C7_Witness ==
  /\ pc = "parsed"
  /\ argv = <<<<"-","-","i","m","a","g","e","=","W","I","N">>, <<"-","-","o","s","=","l","i","n","u","x">>>>
  /\ parsed.status = "ok"
  /\ parsed.args.os = OS_windows

\* C8: a generated password has 16 characters, at least one of each of the
\* four classes, and is a reordering of the 16 characters chosen before
\* the shuffle.
C8_PasswordPolicy ==
  pc = "generated" =>
    /\ Len(password) = 16
    /\ Len(drawn) = 16
    /\ \E i \in 1..Len(password) : InClass(password[i], lowercase)
    /\ \E i \in 1..Len(password) : InClass(password[i], uppercase)
    /\ \E i \in 1..Len(password) : InClass(password[i], digits)
    /\ \E i \in 1..Len(password) : InClass(password[i], special)
    /\ \A c \in {drawn[i] : i \in 1..Len(drawn)} \cup {password[i] : i \in 1..Len(password)} :
         Count(password, c) = Count(drawn, c)

\* C8 witness: a generation with a deviating character draw and a
\* deviating comparator draw whose shuffle changed the order
C8_Witness ==
  /\ pc = "generated"
  /\ \E k \in 1..length : tape.picks[k] # 0
  /\ \E n \in 1..CmpTapeLen : tape.cmps[n] # 0
  /\ password # drawn
  /\ Len(password) = 16

\* C9: without a --name token, a windows configuration gets the name
\* "win-" followed by the last 8 characters of the time stamp (all of them
\* when there are fewer), at most 15 characters; a linux configuration
\* gets "linux-vm-" followed by the whole time stamp.
C9_GeneratedNames ==
  (/\ pc = "parsed"
   /\ parsed.status = "ok"
   /\ \A i \in 1..Len(argv) : ~StartsWith(argv[i], <<"-","-","n","a","m","e">>)) =>
    LET stamp == NumberToString(clock[2])
        name == parsed.args.name
    IN /\ parsed.args.os = OS_windows =>
            /\ Len(name) <= 15
            /\ \E k \in 0..8 :
                 /\ k <= Len(stamp)
                 /\ k = 8 \/ k = Len(stamp)
                 /\ name = <<"w","i","n","-">> \o SubSeq(stamp, Len(stamp) - k + 1, Len(stamp))
       /\ parsed.args.os = OS_linux => name = <<"l","i","n","u","x","-","v","m","-">> \o stamp

\* C9 witness: a windows name cut from a 13-digit time stamp
C9_Witness ==
  /\ pc = "parsed"
  /\ argv = <<>>
  /\ parsed.status = "ok"
  /\ parsed.args.os = OS_windows
  /\ Len(clock[2]) = 13
  /\ Len(parsed.args.name) = 12

IsEscapedChar(c) == c = "\"" \/ c = "$"

\* the number of characters among the first i of p that get a backslash
Added(p, i) == Cardinality({j \in 1..i : IsEscapedChar(p[j])})

\* C10: the --admin-password argument is the password between double
\* quotes, every character kept in order, with exactly one backslash added
\* in front of each double quote and each $ and nothing else added; the
\* password a"b$c gives a\"b\$c.
C10_PasswordEscaping ==
  pc = "built" =>
    LET arg == command.adminPassword
        body == SubSeq(arg, 2, Len(arg) - 1)
    IN /\ Len(arg) >= 2
       /\ arg[1] = "\""
       /\ arg[Len(arg)] = "\""
       /\ Len(body) = Len(plain) + Added(plain, Len(plain))
       /\ \A i \in 1..Len(plain) :
            /\ body[i + Added(plain, i)] = plain[i]
            /\ IsEscapedChar(plain[i]) => body[i + Added(plain, i) - 1] = "\\"
       /\ plain = ExamplePassword => body = <<"a","\\","\"","b","\\","$","c">>

\* C10 witness: the command built for the password a"b$c
C10_Witness ==
  /\ pc = "built"
  /\ plain = ExamplePassword
  /\ command.adminPassword = <<"\"","a","\\","\"","b","\\","$","c","\"">>

\* the configuration keys a flag may set, each with its field
SettableFields ==
  { <<K_location, "location">>, <<K_name, "name">>, <<K_size, "size">>,
    <<K_image, "image">>, <<K_resourceGroup, "resourceGroup">>,
    <<K_username, "username">>, <<K_password, "password">> }

\* token is --<key>=<text> with a non-empty text
IsFlagFor(token, key) ==
  /\ StartsWith(token, <<"-","-">> \o key \o <<"=">>)
  /\ Len(token) > Len(key) + 3

\* the entire text after the first `=` of a token --<key>=<text>
TextAfterFirstEq(token, key) == SubSeq(token, Len(key) + 4, Len(token))

\* C11: for each of the seven keys, the last token --<key>=<text> with a
\* non-empty text decides the field: the field is the entire text after
\* the first `=`, also when the text holds `=` characters (for image: the
\* preset that text names, or else the text).
C11_WholeValueLastWins ==
  (pc = "parsed" /\ parsed.status = "ok") =>
    \A kf \in SettableFields, i \in 1..Len(argv) :
      (/\ IsFlagFor(argv[i], kf[1])
       /\ \A j \in (i + 1)..Len(argv) : ~IsFlagFor(argv[j], kf[1])) =>
        LET text == TextAfterFirstEq(argv[i], kf[1])
        IN parsed.args[kf[2]] =
             IF kf[1] = K_image /\ text \in DOMAIN IMAGE_PRESETS
             THEN IMAGE_PRESETS[text]
             ELSE text

\* the characters a backslash escapes inside double quotes
ShellEscapable == {"\"", "$", Backtick, "\\"}

RECURSIVE ShellDoubleQuoted(_)
\* a POSIX shell reading the text after an opening double quote: the
\* characters of the word up to the closing quote (value), whether that
\* quote was found (closed), whether a $ or a backtick started an
\* expansion (expanded), and the text left after the closing quote (rest)
ShellDoubleQuoted(s) ==
  IF s = <<>>
  THEN [value |-> <<>>, closed |-> FALSE, expanded |-> FALSE, rest |-> <<>>]
  ELSE IF Head(s) = "\""
  THEN [value |-> <<>>, closed |-> TRUE, expanded |-> FALSE, rest |-> Tail(s)]
  ELSE IF Head(s) = "\\" /\ Len(s) >= 2 /\ s[2] \in ShellEscapable
  THEN LET r == ShellDoubleQuoted(Tail(Tail(s)))
       IN [r EXCEPT !.value = <<s[2]>> \o @]
  ELSE IF Head(s) \in {"$", Backtick}
  THEN LET r == ShellDoubleQuoted(Tail(s))
       IN [r EXCEPT !.expanded = TRUE]
  ELSE LET r == ShellDoubleQuoted(Tail(s))
       IN [r EXCEPT !.value = <<Head(s)>> \o @]

\* C12: a POSIX shell reading the double-quoted --admin-password argument
\* finds its closing quote at the end of the argument, starts no
\* expansion or command substitution, and hands on exactly the original
\* password.
C12_EscapingRoundTrip ==
  pc = "built" =>
    LET read == ShellDoubleQuoted(Tail(command.adminPassword))
    IN /\ read.closed
       /\ read.rest = <<>>
       /\ ~read.expanded
       /\ read.value = plain

====
